---- MODULE Spec2Model ----
(***************************************************************************)
(* Model of lnaddress2invoice.py: the LNURL-pay pipeline get_bolt11        *)
(* (get_payurl -> descriptor GET -> range check -> query -> callback GET)  *)
(* and the BOLT11 decoder decode_bolt11 / parse_tags.                      *)
(*                                                                         *)
(* Python str values are TLA+ strings; an optional value (None or a value) *)
(* is a sequence of length 0 or 1; a JSON value is a record tagged by t.   *)
(***************************************************************************)
EXTENDS Integers, Sequences, FiniteSets, TLC

VARIABLES pc, call, comment, purl, datablock, lnurlpay, min_amount, max_amount,
          comment_allowed, amount_msat, query_params, payquery, exc, result,
          raised, gets, dec, pr_dict, tagloop, gui

vars == <<pc, call, comment, purl, datablock, lnurlpay, min_amount, max_amount,
          comment_allowed, amount_msat, query_params, payquery, exc, result,
          raised, gets, dec, pr_dict, tagloop, gui>>

-----------------------------------------------------------------------------
(* Bounds of the model *)

\* amounts (in satoshi) handed to get_bolt11 range over -1..MaxAmountSat, plus 5
MaxAmountSat == 2

\* parse_tags is run on every sequence of at most MaxTagWords words
MaxTagWords == 6

\* the QR label takes the widths and heights 0..MaxSide
MaxSide == 2

-----------------------------------------------------------------------------
(* Python string helpers *)

None == <<>>
Some(v) == <<v>>
IsNone(o) == o = <<>>
Val(o) == o[1]

CharAt(s, i) == SubSeq(s, i, i)

Count(s, c) == Cardinality({i \in 1..Len(s) : CharAt(s, i) = c})

FirstIndex(s, c) == CHOOSE i \in 1..Len(s) :
                       /\ CharAt(s, i) = c
                       /\ \A j \in 1..(i-1) : CharAt(s, j) # c

\* str.split(sep) for a one-character separator
RECURSIVE split(_, _)
split(s, sep) ==
    IF Count(s, sep) = 0 THEN <<s>>
    ELSE LET i == FirstIndex(s, sep)
         IN  <<SubSeq(s, 1, i-1)>> \o split(SubSeq(s, i+1, Len(s)), sep)

\* s[:n] for n >= 0
Prefix(s, n) == SubSeq(s, 1, IF n < Len(s) THEN n ELSE Len(s))

Whitespace == {" "}

RECURSIVE lstrip(_)
lstrip(s) == IF Len(s) > 0 /\ CharAt(s, 1) \in Whitespace
             THEN lstrip(SubSeq(s, 2, Len(s))) ELSE s

RECURSIVE rstrip(_)
rstrip(s) == IF Len(s) > 0 /\ CharAt(s, Len(s)) \in Whitespace
             THEN rstrip(SubSeq(s, 1, Len(s)-1)) ELSE s

strip(s) == rstrip(lstrip(s))

-----------------------------------------------------------------------------
(* JSON values and Python conversions *)

JInt(n)    == [t |-> "int", i |-> n]
JStr(s)    == [t |-> "str", s |-> s]
JFloat(m)  == [t |-> "float", milli |-> m]    \* the number m/1000
JBool(b)   == [t |-> "bool", b |-> b]
JNull      == [t |-> "null"]
JList(xs)  == [t |-> "list", items |-> xs]
JObj(f)    == [t |-> "obj", f |-> f]

Returned(v)    == [ok |-> TRUE, v |-> v]
Raise(ty, txt) == [ok |-> FALSE, exc |-> [type |-> ty, text |-> txt]]

Digits == {"0", "1", "2", "3", "4", "5", "6", "7", "8", "9"}

DigitVal(c) == CASE c = "0" -> 0 [] c = "1" -> 1 [] c = "2" -> 2 [] c = "3" -> 3
                 [] c = "4" -> 4 [] c = "5" -> 5 [] c = "6" -> 6 [] c = "7" -> 7
                 [] c = "8" -> 8 [] c = "9" -> 9

IsDigits(s) == Len(s) > 0 /\ \A i \in 1..Len(s) : CharAt(s, i) \in Digits

RECURSIVE DigitsVal(_)
DigitsVal(s) == IF Len(s) = 0 THEN 0
                ELSE 10 * DigitsVal(SubSeq(s, 1, Len(s)-1)) + DigitVal(CharAt(s, Len(s)))

\* int(x) of Python for a JSON-decoded value x
PyInt(x) ==
    CASE x.t = "int"   -> Returned(x.i)
      [] x.t = "bool"  -> Returned(IF x.b THEN 1 ELSE 0)
      [] x.t = "float" -> Returned(IF x.milli >= 0 THEN x.milli \div 1000
                                   ELSE -((-x.milli) \div 1000))
      [] x.t = "str"   ->
            LET body == strip(x.s)
                neg  == Len(body) > 0 /\ CharAt(body, 1) = "-"
                pos  == Len(body) > 0 /\ CharAt(body, 1) = "+"
                mag  == IF neg \/ pos THEN SubSeq(body, 2, Len(body)) ELSE body
            IN  IF IsDigits(mag)
                THEN Returned(IF neg THEN -DigitsVal(mag) ELSE DigitsVal(mag))
                ELSE Raise("ValueError",
                           "invalid literal for int() with base 10: '" \o x.s \o "'")
      [] OTHER -> Raise("TypeError",
                        "int() argument must be a string, a bytes-like object or a real number")

\* dict.get(key, default)
DictGet(d, key, default) == IF key \in DOMAIN d.f THEN d.f[key] ELSE default

\* d[key] of Python for a JSON-decoded value d
Subscript(d, key) ==
    CASE d.t = "obj" -> IF key \in DOMAIN d.f THEN Returned(d.f[key])
                        ELSE Raise("KeyError", "'" \o key \o "'")
      [] d.t \in {"list", "str"} -> Raise("TypeError", "indices must be integers")
      [] OTHER -> Raise("TypeError", "object is not subscriptable")

\* `key in d` of Python for a JSON-decoded value d
Contains(d, key) ==
    CASE d.t = "obj"  -> Returned(key \in DOMAIN d.f)
      [] d.t = "list" -> Returned(\E i \in 1..Len(d.items) : d.items[i] = key)
      [] d.t = "str"  -> Returned(\E i \in 1..Len(d.s) :
                                     /\ i + Len(key) - 1 <= Len(d.s)
                                     /\ SubSeq(d.s, i, i + Len(key) - 1) = key)
      [] OTHER -> Raise("TypeError", "argument is not iterable")

-----------------------------------------------------------------------------
(* get_payurl *)

get_payurl(lnaddress) ==
    LET parts == split(lnaddress, "@")
    IN  IF Len(parts) # 2
        THEN Raise("ValueError", "Errorm possibly malformed LN Address: " \o lnaddress)
        ELSE LET domain   == parts[2]
                 username == parts[1]
             IN  Returned("https://" \o domain \o "/.well-known/lnurlp/" \o username)

(* get_comment_length *)

get_comment_length(d) ==
    IF d.t # "obj" THEN Raise("AttributeError", "object has no attribute 'get'")
    ELSE PyInt(DictGet(d, "commentAllowed", JInt(0)))

-----------------------------------------------------------------------------
(* get_bolt11: the steps between the two HTTP requests, as functions *)

MsatPerSat == 1000

\* lines 46-49: the descriptor fields, read in the order of the code
read_descriptor(d) ==
    LET cb == Subscript(d, "callback")
        mn == Subscript(d, "minSendable")
        mx == Subscript(d, "maxSendable")
    IN  IF ~cb.ok THEN cb
        ELSE IF ~mn.ok THEN mn
        ELSE IF ~PyInt(mn.v).ok THEN PyInt(mn.v)
        ELSE IF ~mx.ok THEN mx
        ELSE IF ~PyInt(mx.v).ok THEN PyInt(mx.v)
        ELSE IF ~get_comment_length(d).ok THEN get_comment_length(d)
        ELSE Returned([lnurlpay        |-> cb.v.s,
                       min_amount      |-> PyInt(mn.v).v,
                       max_amount      |-> PyInt(mx.v).v,
                       comment_allowed |-> get_comment_length(d).v])

\* RangeMsg with the bounds cited in millisatoshi
RangeMsg_msat(head, lo, hi) ==
    head \o ", must be in range " \o ToString(lo)
         \o " and " \o ToString(hi) \o " sat"

\* the text of the two range errors, lines 60 and 65
RangeMsg(head, lo, hi) ==
    head \o ", must be in range " \o ToString(lo \div MsatPerSat)
         \o " and " \o ToString(hi \div MsatPerSat) \o " sat"

\* range_check with the bounds excluded
range_check_strict(amount, lo, hi) ==
    IF IsNone(amount) THEN [amount_msat |-> None, reject |-> None]
    ELSE LET msat == Val(amount) * 1000
         IN  IF msat <= lo
             THEN [amount_msat |-> Some(msat), reject |-> Some("Amount too small")]
             ELSE IF msat >= hi
             THEN [amount_msat |-> Some(msat), reject |-> Some("Amount too big")]
             ELSE [amount_msat |-> Some(msat), reject |-> None]

\* lines 55-68: amount is None or Some(satoshi)
range_check(amount, lo, hi) ==
    IF IsNone(amount) THEN [amount_msat |-> None, reject |-> None]
    ELSE LET msat == Val(amount) * MsatPerSat
         IN  IF msat < lo
             THEN [amount_msat |-> Some(msat),
                   reject |-> Some(RangeMsg("Amount too small", lo, hi))]
             ELSE IF msat > hi
             THEN [amount_msat |-> Some(msat),
                   reject |-> Some(RangeMsg("Amount too big", lo, hi))]
             ELSE [amount_msat |-> Some(msat), reject |-> None]

\* truth value of `comment` (None and "" are false)
Truthy(c) == ~IsNone(c) /\ Len(Val(c)) > 0

\* truncate_comment cutting one character too many
truncate_comment_short(allowed, c) ==
    IF allowed > 0 /\ Truthy(c) /\ Len(Val(c)) > allowed
    THEN Some(Prefix(Val(c), allowed - 1)) ELSE c

\* lines 80-83: the comment as rebound by the truncation
truncate_comment(allowed, c) ==
    IF allowed > 0 /\ Truthy(c) /\ Len(Val(c)) > allowed
    THEN Some(Prefix(Val(c), allowed)) ELSE c

\* lines 73-84: the query parameters in insertion order
build_params(msat, allowed, c) ==
    (IF ~IsNone(msat) THEN << <<"amount", ToString(Val(msat))>> >> ELSE <<>>)
    \o (IF allowed > 0 /\ Truthy(c)
        THEN << <<"comment", Val(truncate_comment(allowed, c))>> >> ELSE <<>>)

\* urllib.parse.quote_plus on one character
Letters == "abcdefghijklmnopqrstuvwxyzABCDEFGHIJKLMNOPQRSTUVWXYZ"

Unreserved == Digits \cup {"_", ".", "-", "~"} \cup {CharAt(Letters, i) : i \in 1..Len(Letters)}

quote_char(c) ==
    CASE c \in Unreserved -> c
      [] c = " " -> "+"
      [] c = "&" -> "%26"
      [] c = "=" -> "%3D"
      [] c = "?" -> "%3F"
      [] c = "/" -> "%2F"
      [] c = ":" -> "%3A"
      [] c = "@" -> "%40"
      [] c = "+" -> "%2B"
      [] c = "%" -> "%25"

RECURSIVE quote_plus(_)
quote_plus(s) == IF Len(s) = 0 THEN ""
                 ELSE quote_char(CharAt(s, 1)) \o quote_plus(SubSeq(s, 2, Len(s)))

\* urllib.parse.urlencode on the ordered parameters
RECURSIVE urlencode(_)
urlencode(params) ==
    IF Len(params) = 0 THEN ""
    ELSE quote_plus(params[1][1]) \o "=" \o quote_plus(params[1][2])
         \o (IF Len(params) > 1 THEN "&" ELSE "") \o urlencode(Tail(params))

\* build_url joining with `&` when the callback already holds a `?`
build_url_merge(callback, params) ==
    callback \o (IF Count(callback, "?") > 0 THEN "&" ELSE "?") \o urlencode(params)

\* line 88
build_url(callback, params) == callback \o "?" \o urlencode(params)

Ok(bolt11) == [status |-> "ok", bolt11 |-> bolt11]
Err(msg)   == [status |-> "error", msg |-> msg]

\* classify looking at `reason` before `pr`
classify_reason_first(d) ==
    IF ~Contains(d, "reason").ok THEN Contains(d, "reason")
    ELSE IF Contains(d, "reason").v /\ Subscript(d, "reason").ok
         THEN Returned([status |-> "error", msg |-> Subscript(d, "reason").v.s])
    ELSE IF Contains(d, "pr").v /\ Subscript(d, "pr").ok
         THEN Returned([status |-> "ok", bolt11 |-> Subscript(d, "pr").v.s])
    ELSE Returned([status |-> "error", msg |-> "Unexpected response format"])

\* lines 96-101
classify(d) ==
    LET has_pr     == Contains(d, "pr")
        has_reason == Contains(d, "reason")
    IN  IF ~has_pr.ok THEN has_pr
        ELSE IF has_pr.v
             THEN (IF Subscript(d, "pr").ok
                   THEN Returned(Ok(Subscript(d, "pr").v.s))
                   ELSE Subscript(d, "pr"))
        ELSE IF has_reason.v
             THEN (IF Subscript(d, "reason").ok
                   THEN Returned(Err(Subscript(d, "reason").v.s))
                   ELSE Subscript(d, "reason"))
        ELSE Returned(Err("Unexpected response format"))

\* the handler as `except ValueError`
Caught_ValueError(e) == e.type = "ValueError"

\* line 103: `except Exception` catches every exception class that the steps raise
Caught(e) == e.type \in {"ValueError", "TypeError", "KeyError", "AttributeError",
                         "JSONDecodeError", "ConnectionError"}

-----------------------------------------------------------------------------
(* BOLT11 decoder *)

TimestampWords == 7
SignatureWords == 104

\* from_words, lines 124-128
RECURSIVE from_words(_)
from_words(words) ==
    IF Len(words) = 0 THEN 0
    ELSE from_words(SubSeq(words, 1, Len(words)-1)) * 32 + words[Len(words)]

Pow2(n) == CASE n = 0 -> 1 [] n = 1 -> 2 [] n = 2 -> 4 [] n = 3 -> 8 [] n = 4 -> 16
             [] n = 5 -> 32 [] n = 6 -> 64 [] n = 7 -> 128 [] n = 8 -> 256

\* the inner while loop of words_to_bytes, lines 138-140
RECURSIVE drain(_, _)
drain(bits, bit_buf) ==
    IF bits >= 8
    THEN LET rest == drain(bits - 8, bit_buf)
         IN  [out  |-> <<(bit_buf \div Pow2(bits - 8)) % 256>> \o rest.out,
              bits |-> rest.bits]
    ELSE [out |-> <<>>, bits |-> bits]

\* the for loop of words_to_bytes, lines 135-140
RECURSIVE pack(_, _, _)
pack(words, bits, bit_buf) ==
    IF Len(words) = 0 THEN <<>>
    ELSE LET buf == bit_buf * 32 + Head(words)
             d   == drain(bits + 5, buf)
         IN  d.out \o pack(Tail(words), d.bits, buf % Pow2(d.bits))

\* words_to_bytes, lines 131-141 (bit_buf is kept to its unread low bits)
words_to_bytes(words) == pack(words, 0, 0)

HexDigits == "0123456789abcdef"

\* bytes.hex()
RECURSIVE hex(_)
hex(bytes) ==
    IF Len(bytes) = 0 THEN ""
    ELSE CharAt(HexDigits, (Head(bytes) \div 16) + 1)
         \o CharAt(HexDigits, (Head(bytes) % 16) + 1) \o hex(Tail(bytes))

\* the characters chr(32)..chr(126), with chr(34), chr(92) and chr(96) written as "?"
Printable == " !?#$%&'()*+,-./0123456789:;<=>?@ABCDEFGHIJKLMNOPQRSTUVWXYZ[?]^_?abcdefghijklmnopqrstuvwxyz{|}~"

\* the continuation bytes that the lead byte b of a UTF-8 sequence needs
Needs(b) == IF b < 224 THEN 1 ELSE IF b < 240 THEN 2 ELSE 3

\* the lead byte at the head of bytes has its continuation bytes
Continued(bytes) ==
    /\ Len(bytes) > Needs(Head(bytes))
    /\ \A k \in 1..Needs(Head(bytes)) : bytes[k + 1] \in 128..191

\* bytes.decode('utf-8', errors='ignore') on bytes without a multi-byte
\* character: an ASCII byte is its character (a control character and
\* chr(34), chr(92), chr(96) are written <hh>); a continuation byte 0x80..0xBF
\* that follows no lead byte, a lead byte 0xC0..0xF7 without its continuation
\* bytes and a byte 0xF8..0xFF are invalid and dropped
RECURSIVE decode_utf8_ignore(_)
decode_utf8_ignore(bytes) ==
    IF Len(bytes) = 0 THEN ""
    ELSE (CASE Head(bytes) \in (32..126) \ {34, 92, 96} -> CharAt(Printable, Head(bytes) - 31)
            [] Head(bytes) \in (0..31) \cup {34, 92, 96, 127} -> "<" \o hex(<<Head(bytes)>>) \o ">"
            [] Head(bytes) \in 128..191 -> ""
            [] Head(bytes) \in 192..247 /\ ~Continued(bytes) -> ""
            [] Head(bytes) \in 248..255 -> "")
         \o decode_utf8_ignore(Tail(bytes))

\* chr(tag_int + ord('a')), line 148 (chr(127) and chr(128) written as <7f> and <80>)
tag_char(tag_int) ==
    CASE tag_int \in 0..29 -> CharAt("abcdefghijklmnopqrstuvwxyz{|}~", tag_int + 1)
      [] tag_int = 30 -> "<7f>"
      [] tag_int = 31 -> "<80>"

EmptyTags == <<>>

SetTag(tags, k, v) ==
    [x \in (DOMAIN tags) \cup {k} |-> IF x = k THEN v ELSE tags[x]]

\* the match statement, lines 163-180
store_tag(tags, c, data_words) ==
    CASE c = "p" -> SetTag(tags, "payment_hash", [hex |-> hex(words_to_bytes(data_words))])
      [] c = "d" -> SetTag(tags, "description",
                           [text |-> decode_utf8_ignore(words_to_bytes(data_words))])
      [] c = "x" -> SetTag(tags, "expiry", [int |-> from_words(data_words)])
      [] c = "n" -> SetTag(tags, "payee_pubkey", [hex |-> hex(words_to_bytes(data_words))])
      [] c = "f" -> SetTag(tags, "fallback_address",
                           [hex |-> hex(words_to_bytes(data_words))])
      [] c = "r" -> SetTag(tags, "routing_hints",
                           [hints |-> <<hex(words_to_bytes(data_words))>>])
      [] OTHER   -> SetTag(tags, "unknown_" \o c, [words |-> data_words])

\* the while loop of parse_tags, lines 146-182; i is the 0-based read index
RECURSIVE parse_from(_, _, _)
parse_from(words, i, tags) ==
    IF i + 3 <= Len(words)
    THEN LET tag_int     == words[i + 1]
             data_length == words[i + 2] * 32 + words[i + 3]
             data_start  == i + 3
             data_end    == data_start + data_length
         IN  IF data_end > Len(words) THEN tags
             ELSE parse_from(words, data_end,
                             store_tag(tags, tag_char(tag_int),
                                       SubSeq(words, data_start + 1, data_end)))
    ELSE tags

\* parse_tags, lines 143-183
parse_tags(words) == parse_from(words, 0, EmptyTags)

\* one pass of the loop body without the overrun check of line 154: the
\* slice words[data_start:data_end] gives the words that exist
parse_step_lenient(words, i, tags) ==
    LET data_length == words[i + 2] * 32 + words[i + 3]
        data_end    == i + 3 + data_length
        last        == IF data_end > Len(words) THEN Len(words) ELSE data_end
    IN  [stop |-> FALSE, i |-> data_end,
         tags |-> store_tag(tags, tag_char(words[i + 1]), SubSeq(words, i + 4, last))]

\* one pass of the loop body, lines 147-182, entered with i + 3 <= len(words):
\* stop is the break of line 156
parse_step(words, i, tags) ==
    LET tag_int     == words[i + 1]
        data_length == words[i + 2] * 32 + words[i + 3]
        data_start  == i + 3
        data_end    == data_start + data_length
    IN  IF data_end > Len(words)
        THEN [stop |-> TRUE, i |-> i, tags |-> tags]
        ELSE [stop |-> FALSE, i |-> data_end,
              tags |-> store_tag(tags, tag_char(tag_int),
                                 SubSeq(words, data_start + 1, data_end))]

\* s[start:stop] of Python, start and stop possibly negative
SliceIndex(s, k) == IF k < 0 THEN (IF Len(s) + k < 0 THEN 0 ELSE Len(s) + k)
                    ELSE (IF k > Len(s) THEN Len(s) ELSE k)

Slice(s, start, stop) ==
    IF SliceIndex(s, start) < SliceIndex(s, stop)
    THEN SubSeq(s, SliceIndex(s, start) + 1, SliceIndex(s, stop))
    ELSE SubSeq(s, 1, 0)

startswith(s, p) == Len(s) >= Len(p) /\ SubSeq(s, 1, Len(p)) = p

\* decode_bolt11, lines 185-196, on the result (hrp, data) of bech32_decode;
\* None stands for the (None, None) of a failed bech32 decoding
decode_bolt11(decoded) ==
    IF IsNone(decoded)
    THEN Raise("ValueError", "Could not decode invoice or bech32 decode failed")
    ELSE LET hrp       == Val(decoded).hrp
             data      == Val(decoded).data
             tag_words == Slice(data, TimestampWords, -SignatureWords)
         IN  Returned([hrp       |-> hrp,
                       amount    |-> IF startswith(hrp, "lnbc")
                                     THEN SubSeq(hrp, 5, Len(hrp)) ELSE "n/a",
                       timestamp |-> from_words(Slice(data, 0, TimestampWords)),
                       tag_words |-> tag_words,
                       tags      |-> parse_tags(tag_words)])

-----------------------------------------------------------------------------
(* The inputs of the operations and the answers of the network *)

Addresses == {"alice@example.com", "@", "alice@", "alice", "a@b@c", ""}

Amounts == {None} \cup {Some(n) : n \in (-1..MaxAmountSat) \cup {5}}

Comments == {None, Some(""), Some(" "), Some("hi"), Some("a b&c")}

Callbacks == {None, Some(JStr("https://example.com/cb")),
              Some(JStr("https://example.com/cb?x=1"))}

MinSendables == {None, Some(JInt(0)), Some(JInt(1000)), Some(JInt(1001)),
                 Some(JStr("2000"))}

MaxSendables == {Some(JInt(1999)), Some(JInt(3000)), Some(JInt(100000))}

CommentAlloweds == {None, Some(JInt(0)), Some(JInt(2)), Some(JInt(10)), Some(JInt(-1)),
                    Some(JStr("2")), Some(JStr("abc")), Some(JFloat(2500)), Some(JNull)}

\* a JSON object holding the keys whose value is given
Object(fields) ==
    JObj([k \in {x \in DOMAIN fields : ~IsNone(fields[x])} |-> Val(fields[k])])

Descriptors ==
    {Object([callback |-> cb, minSendable |-> mn, maxSendable |-> mx, commentAllowed |-> ca]) :
        cb \in Callbacks, mn \in MinSendables, mx \in MaxSendables, ca \in CommentAlloweds}

\* what a GET can give: a transport failure, a body that is not JSON, a JSON value
NetErr      == [kind |-> "neterr"]
NotJson     == [kind |-> "text"]
Json(v)     == [kind |-> "json", val |-> v]

DiscoveryAnswers == {NetErr, NotJson, Json(JList(<<>>))} \cup {Json(d) : d \in Descriptors}

Invoices == {"lnbc1example"}
Reasons  == {"amount too small"}

CallbackAnswers ==
    {NetErr, NotJson, Json(JList(<<"pr">>)), Json(JList(<<>>)), Json(JInt(7))}
    \cup {Json(Object([pr |-> p, reason |-> r])) :
            p \in {None} \cup {Some(JStr(i)) : i \in Invoices},
            r \in {None} \cup {Some(JStr(x)) : x \in Reasons}}

\* requests.get(...).text followed by json.loads, lines 43-44 and 93-94
load(answer) ==
    CASE answer.kind = "neterr" -> Raise("ConnectionError", "Max retries exceeded")
      [] answer.kind = "text"   -> Raise("JSONDecodeError",
                                         "Expecting value: line 1 column 1 (char 0)")
      [] answer.kind = "json"   -> Returned(answer.val)

Zeros(n) == [i \in 1..n |-> 0]

Hrps == {"lnbc", "lnbc20u", "lntb1m"}

\* the timestamp words start with 0 or 1: the values stay below 2^31
Timestamps      == {<<1, 18, 0, 0, 0, 0, 0>>, <<0, 0, 0, 0, 0, 1, 2>>}
ShortTimestamps == {<<>>, <<1, 2, 3>>}

TagStreams == {<<>>,
               <<3, 0, 2, 12, 13>>,
               <<23, 0, 1, 5>>,
               <<3, 0, 2, 12, 13, 23, 0, 9, 1>>,
               <<25, 0, 1, 7>>,
               <<15, 1, 0>>}

Paddings == {0, SignatureWords - 1, SignatureWords}

\* what bech32_decode can give: (None, None) or a prefix and 5-bit words
Bech32Results ==
    {None}
    \cup {Some([hrp |-> h, data |-> ts \o tg \o Zeros(n)]) :
            h \in Hrps, ts \in Timestamps, tg \in TagStreams, n \in Paddings}
    \cup {Some([hrp |-> h, data |-> ts \o Zeros(n)]) :
            h \in Hrps, ts \in ShortTimestamps, n \in Paddings}

\* the word sequences handed to parse_tags
TagAlphabet == {0, 1, 3, 23}

TagWordSeqs == UNION {[1..n -> TagAlphabet] : n \in 0..MaxTagWords}

-----------------------------------------------------------------------------
(* The state machine *)

\* parse_tags is not running
NoTagLoop == [pc |-> "idle", words |-> <<>>, i |-> 0, tags |-> EmptyTags]

\* MainWindow.__init__ and ScalableQRCodeLabel.__init__
\* (last is the status of the result of the last finished generation)
NewWindow == [recipient |-> "", amount |-> "", comment |-> "", enabled |-> TRUE,
              worker |-> None, edit_invoice |-> "", status |-> "",
              pixmap_orig |-> None, shown |-> None, width |-> 1, height |-> 1,
              last |-> ""]

Init ==
    /\ pc = "idle"
    /\ call = [op |-> "", lnaddress |-> "", amount |-> None, comment |-> None, decoded |-> None]
    /\ comment = None
    /\ purl = ""
    /\ datablock = JNull
    /\ lnurlpay = ""
    /\ min_amount = 0
    /\ max_amount = 0
    /\ comment_allowed = 0
    /\ amount_msat = None
    /\ query_params = <<>>
    /\ payquery = ""
    /\ exc = None
    /\ result = None
    /\ raised = None
    /\ gets = <<>>
    /\ dec = None
    /\ pr_dict = JNull
    /\ tagloop = NoTagLoop
    /\ gui = NewWindow

\* a caller calls get_bolt11(lnaddress, amount, comment), line 40
Call(a, amt, c) ==
    /\ pc = "idle"
    /\ pc' = "get_payurl"
    /\ call' = [call EXCEPT !.op = "get_bolt11", !.lnaddress = a, !.amount = amt, !.comment = c]
    /\ comment' = c
    /\ UNCHANGED <<purl, datablock, lnurlpay, min_amount, max_amount, comment_allowed,
                   amount_msat, query_params, payquery, exc, result, raised, gets, dec,
                   pr_dict>>
    /\ UNCHANGED <<tagloop, gui>>

\* line 42
GetPayurl ==
    /\ pc = "get_payurl"
    /\ LET r == get_payurl(call.lnaddress)
       IN  IF r.ok
           THEN pc' = "fetch" /\ purl' = r.v /\ exc' = exc
           ELSE pc' = "except" /\ purl' = purl /\ exc' = Some(r.exc)
    /\ UNCHANGED <<call, comment, datablock, lnurlpay, min_amount, max_amount,
                   comment_allowed, amount_msat, query_params, payquery, result,
                   raised, gets, dec, pr_dict>>
    /\ UNCHANGED <<tagloop, gui>>

\* FetchDescriptor with the GET tried again after a failure
FetchDescriptor_retry(answer) ==
    /\ pc = "fetch"
    /\ gets' = Append(gets, purl)
    /\ LET body == load(answer)
           d    == read_descriptor(body.v)
       IN  IF ~body.ok
           THEN /\ pc' = "fetch" /\ exc' = exc
                /\ UNCHANGED <<datablock, lnurlpay, min_amount, max_amount, comment_allowed>>
           ELSE IF ~d.ok
           THEN /\ pc' = "except" /\ exc' = Some(d.exc)
                /\ datablock' = body.v
                /\ UNCHANGED <<lnurlpay, min_amount, max_amount, comment_allowed>>
           ELSE /\ pc' = "check_amount" /\ exc' = exc
                /\ datablock' = body.v
                /\ lnurlpay' = d.v.lnurlpay
                /\ min_amount' = d.v.min_amount
                /\ max_amount' = d.v.max_amount
                /\ comment_allowed' = d.v.comment_allowed
    /\ UNCHANGED <<call, comment, purl, amount_msat, query_params, payquery, result,
                   raised, dec, pr_dict, tagloop, gui>>

\* lines 43-49: the GET of the discovery URL, json.loads, the descriptor fields
FetchDescriptor(answer) ==
    /\ pc = "fetch"
    /\ gets' = Append(gets, purl)
    /\ LET body == load(answer)
           d    == read_descriptor(body.v)
       IN  IF ~body.ok
           THEN /\ pc' = "except" /\ exc' = Some(body.exc)
                /\ UNCHANGED <<datablock, lnurlpay, min_amount, max_amount, comment_allowed>>
           ELSE IF ~d.ok
           THEN /\ pc' = "except" /\ exc' = Some(d.exc)
                /\ datablock' = body.v
                /\ UNCHANGED <<lnurlpay, min_amount, max_amount, comment_allowed>>
           ELSE /\ pc' = "check_amount" /\ exc' = exc
                /\ datablock' = body.v
                /\ lnurlpay' = d.v.lnurlpay
                /\ min_amount' = d.v.min_amount
                /\ max_amount' = d.v.max_amount
                /\ comment_allowed' = d.v.comment_allowed
    /\ UNCHANGED <<call, comment, purl, amount_msat, query_params, payquery, result,
                   raised, dec, pr_dict>>
    /\ UNCHANGED <<tagloop, gui>>

\* lines 55-68
CheckAmount ==
    /\ pc = "check_amount"
    /\ LET r == range_check(call.amount, min_amount, max_amount)
       IN  /\ amount_msat' = r.amount_msat
           /\ IF IsNone(r.reject)
              THEN pc' = "build_query" /\ result' = result
              ELSE pc' = "done" /\ result' = Some(Err(Val(r.reject)))
    /\ UNCHANGED <<call, comment, purl, datablock, lnurlpay, min_amount, max_amount,
                   comment_allowed, query_params, payquery, exc, raised, gets, dec, pr_dict>>
    /\ UNCHANGED <<tagloop, gui>>

\* lines 73-88
BuildQuery ==
    /\ pc = "build_query"
    /\ pc' = "request"
    /\ comment' = truncate_comment(comment_allowed, comment)
    /\ query_params' = build_params(amount_msat, comment_allowed, comment)
    /\ payquery' = build_url(lnurlpay, query_params')
    /\ UNCHANGED <<call, purl, datablock, lnurlpay, min_amount, max_amount,
                   comment_allowed, amount_msat, exc, result, raised, gets, dec, pr_dict>>
    /\ UNCHANGED <<tagloop, gui>>

\* lines 93-101: the GET of the callback URL, json.loads, the classification
RequestInvoice(answer) ==
    /\ pc = "request"
    /\ gets' = Append(gets, payquery)
    /\ LET body == load(answer)
           r    == classify(body.v)
       IN  IF ~body.ok
           THEN /\ pc' = "except" /\ exc' = Some(body.exc)
                /\ UNCHANGED <<result, pr_dict>>
           ELSE IF ~r.ok
           THEN /\ pc' = "except" /\ exc' = Some(r.exc)
                /\ pr_dict' = body.v /\ result' = result
           ELSE /\ pc' = "done" /\ exc' = exc
                /\ pr_dict' = body.v /\ result' = Some(r.v)
    /\ UNCHANGED <<call, comment, purl, datablock, lnurlpay, min_amount, max_amount,
                   comment_allowed, amount_msat, query_params, payquery, raised, dec>>
    /\ UNCHANGED <<tagloop, gui>>

\* lines 103-105: the handler of get_bolt11
Except ==
    /\ pc = "except"
    /\ IF Caught(Val(exc))
       THEN pc' = "done" /\ result' = Some(Err(Val(exc).text)) /\ raised' = raised
       ELSE pc' = "raised" /\ result' = result /\ raised' = exc
    /\ exc' = None
    /\ UNCHANGED <<call, comment, purl, datablock, lnurlpay, min_amount, max_amount,
                   comment_allowed, amount_msat, query_params, payquery, gets, dec, pr_dict>>
    /\ UNCHANGED <<tagloop, gui>>

\* a caller calls decode_bolt11(invoice), lines 185-196; decoded is what
\* bech32_decode gives for the invoice
DecodeBolt11(decoded) ==
    /\ pc = "idle"
    /\ call' = [call EXCEPT !.op = "decode_bolt11", !.decoded = decoded]
    /\ LET r == decode_bolt11(decoded)
       IN  IF r.ok
           THEN pc' = "decoded" /\ dec' = Some(r.v) /\ raised' = raised
           ELSE pc' = "raised" /\ dec' = dec /\ raised' = Some(r.exc)
    /\ UNCHANGED <<comment, purl, datablock, lnurlpay, min_amount, max_amount,
                   comment_allowed, amount_msat, query_params, payquery, exc, result,
                   gets, pr_dict>>
    /\ UNCHANGED <<tagloop, gui>>

\* the operation has ended; its locals are gone and the next call starts afresh
Return ==
    /\ pc \in {"done", "raised", "decoded"}
    /\ pc' = "idle"
    /\ call' = [op |-> "", lnaddress |-> "", amount |-> None, comment |-> None, decoded |-> None]
    /\ comment' = None
    /\ purl' = ""
    /\ datablock' = JNull
    /\ lnurlpay' = ""
    /\ min_amount' = 0
    /\ max_amount' = 0
    /\ comment_allowed' = 0
    /\ amount_msat' = None
    /\ query_params' = <<>>
    /\ payquery' = ""
    /\ exc' = None
    /\ result' = None
    /\ raised' = None
    /\ gets' = <<>>
    /\ dec' = None
    /\ pr_dict' = JNull
    /\ UNCHANGED <<tagloop, gui>>

\* parse_tags(words) is called, lines 143-145
ParseStart(words) ==
    /\ tagloop.pc = "idle"
    /\ tagloop' = [pc |-> "loop", words |-> words, i |-> 0, tags |-> EmptyTags]
    /\ UNCHANGED <<pc, call, comment, purl, datablock, lnurlpay, min_amount, max_amount,
                   comment_allowed, amount_msat, query_params, payquery, exc, result,
                   raised, gets, dec, pr_dict, gui>>

\* the test of the while loop and one pass of its body, lines 146-182
ParseStep ==
    /\ tagloop.pc = "loop"
    /\ IF tagloop.i + 3 <= Len(tagloop.words)
       THEN LET r == parse_step(tagloop.words, tagloop.i, tagloop.tags)
            IN  tagloop' = [tagloop EXCEPT !.pc = IF r.stop THEN "done" ELSE "loop",
                                           !.i = r.i, !.tags = r.tags]
       ELSE tagloop' = [tagloop EXCEPT !.pc = "done"]
    /\ UNCHANGED <<pc, call, comment, purl, datablock, lnurlpay, min_amount, max_amount,
                   comment_allowed, amount_msat, query_params, payquery, exc, result,
                   raised, gets, dec, pr_dict, gui>>

\* return tags, line 183
ParseReturn ==
    /\ tagloop.pc = "done"
    /\ tagloop' = NoTagLoop
    /\ UNCHANGED <<pc, call, comment, purl, datablock, lnurlpay, min_amount, max_amount,
                   comment_allowed, amount_msat, query_params, payquery, exc, result,
                   raised, gets, dec, pr_dict, gui>>

Next ==
    \/ \E a \in Addresses, amt \in Amounts, c \in Comments : Call(a, amt, c)
    \/ GetPayurl
    \/ \E answer \in DiscoveryAnswers : FetchDescriptor(answer)
    \/ CheckAmount
    \/ BuildQuery
    \/ \E answer \in CallbackAnswers : RequestInvoice(answer)
    \/ Except
    \/ \E decoded \in Bech32Results : DecodeBolt11(decoded)
    \/ Return

Spec == Init /\ [][Next]_vars

-----------------------------------------------------------------------------
(* zap.py: the main window and its QR label *)

\* the texts a user gives to the recipient, amount and comment fields (the
\* validator of the amount field admits 1 to 18 digits)
RecipientTexts == {"", "alice@example.com", "bob"}
AmountTexts    == {"", "0", "5"}
CommentTexts   == {"", "hi"}

\* the dicts that InvoiceWorker.run emits
WorkerResults == {Ok(i) : i \in Invoices} \cup {Err(r) : r \in Reasons}

\* LNADDRESS_RE, line 42: ^[^@\s]+@[^@\s]+\.[^@\s]+$
LooksLikeAddress(s) ==
    /\ Count(s, "@") = 1
    /\ Count(s, " ") = 0
    /\ FirstIndex(s, "@") > 1
    /\ \E j \in (FirstIndex(s, "@") + 2)..(Len(s) - 1) : CharAt(s, j) = "."

\* ScalableQRCodeLabel._update_pixmap, lines 68-78, with _scale = 1.0:
\* QPixmap.scaled keeps the aspect ratio of the square code and gives a null
\* pixmap, which shows nothing, for a width or height of 0
update_pixmap(orig, shown, w, h) ==
    IF ~IsNone(orig)
    THEN (IF w = 0 \/ h = 0 THEN None
          ELSE Some([of |-> Val(orig), side |-> IF w < h THEN w ELSE h]))
    ELSE shown

\* the user edits a field
EditRecipient(text) ==
    /\ gui' = [gui EXCEPT !.recipient = text]
    /\ UNCHANGED <<pc, call, comment, purl, datablock, lnurlpay, min_amount, max_amount,
                   comment_allowed, amount_msat, query_params, payquery, exc, result,
                   raised, gets, dec, pr_dict, tagloop>>

EditAmount(text) ==
    /\ gui' = [gui EXCEPT !.amount = text]
    /\ UNCHANGED <<pc, call, comment, purl, datablock, lnurlpay, min_amount, max_amount,
                   comment_allowed, amount_msat, query_params, payquery, exc, result,
                   raised, gets, dec, pr_dict, tagloop>>

EditComment(text) ==
    /\ gui' = [gui EXCEPT !.comment = text]
    /\ UNCHANGED <<pc, call, comment, purl, datablock, lnurlpay, min_amount, max_amount,
                   comment_allowed, amount_msat, query_params, payquery, exc, result,
                   raised, gets, dec, pr_dict, tagloop>>

\* MainWindow.on_generate, lines 333-375; yes is the answer to the question
\* "Recipient doesn't look like an lnaddress. Continue anyway?"
OnGenerate(yes) ==
    /\ gui.enabled
    /\ LET lnaddress   == strip(gui.recipient)
           amount_text == strip(gui.amount)
           given       == strip(gui.comment)
       IN  IF \/ Len(lnaddress) = 0
              \/ (~LooksLikeAddress(lnaddress) /\ ~yes)
              \/ Len(amount_text) = 0
              \/ ~PyInt(JStr(amount_text)).ok
              \/ PyInt(JStr(amount_text)).v < 0
           THEN gui' = gui
           ELSE gui' = [gui EXCEPT
                          !.enabled = FALSE,
                          !.status = "Generating invoice...",
                          !.edit_invoice = "",
                          !.worker = Some([lnaddress |-> lnaddress,
                                           amount    |-> PyInt(JStr(amount_text)).v,
                                           comment   |-> IF Len(given) > 0
                                                         THEN Some(given) ELSE None])]
    /\ UNCHANGED <<pc, call, comment, purl, datablock, lnurlpay, min_amount, max_amount,
                   comment_allowed, amount_msat, query_params, payquery, exc, result,
                   raised, gets, dec, pr_dict, tagloop>>

\* MainWindow.on_worker_finished, lines 377-396, with ScalableQRCodeLabel.setPixmap,
\* lines 62-66, and QLabel.clear, which the label does not override
OnWorkerFinished(res) ==
    /\ ~IsNone(gui.worker)
    /\ IF res.status = "ok"
       THEN gui' = [gui EXCEPT
                      !.enabled = TRUE,
                      !.worker = None,
                      !.edit_invoice = res.bolt11,
                      !.status = "Invoice and QR generated successfully. Double-click to copy to clipboard.",
                      !.pixmap_orig = Some(res.bolt11),
                      !.shown = update_pixmap(Some(res.bolt11), gui.shown,
                                              gui.width, gui.height),
                      !.last = "ok"]
       ELSE gui' = [gui EXCEPT
                      !.enabled = TRUE,
                      !.worker = None,
                      !.status = "Error: " \o res.msg,
                      !.shown = None,
                      !.last = "error"]
    /\ UNCHANGED <<pc, call, comment, purl, datablock, lnurlpay, min_amount, max_amount,
                   comment_allowed, amount_msat, query_params, payquery, exc, result,
                   raised, gets, dec, pr_dict, tagloop>>

\* ScalableQRCodeLabel.resizeEvent, lines 80-82: the label has got the size w x h
ResizeEvent(w, h) ==
    /\ <<w, h>> # <<gui.width, gui.height>>
    /\ gui' = [gui EXCEPT
                 !.width = w,
                 !.height = h,
                 !.shown = update_pixmap(gui.pixmap_orig, gui.shown, w, h)]
    /\ UNCHANGED <<pc, call, comment, purl, datablock, lnurlpay, min_amount, max_amount,
                   comment_allowed, amount_msat, query_params, payquery, exc, result,
                   raised, gets, dec, pr_dict, tagloop>>

NextGui ==
    \/ \E text \in RecipientTexts : EditRecipient(text)
    \/ \E text \in AmountTexts : EditAmount(text)
    \/ \E text \in CommentTexts : EditComment(text)
    \/ \E yes \in BOOLEAN : OnGenerate(yes)
    \/ \E res \in WorkerResults : OnWorkerFinished(res)
    \/ \E w \in 0..MaxSide, h \in 0..MaxSide : ResizeEvent(w, h)

SpecGui == Init /\ [][NextGui]_vars

\* parse_tags alone, on every word sequence of the bound
NextTags ==
    \/ \E words \in TagWordSeqs : ParseStart(words)
    \/ ParseStep
    \/ ParseReturn

SpecTags == Init /\ [][NextTags]_vars

-----------------------------------------------------------------------------
(* Properties *)

\* the descriptor was fetched and its fields were read without an exception
DescriptorRead == datablock.t = "obj" /\ read_descriptor(datablock).ok

AmountGiven == call.op = "get_bolt11" /\ ~IsNone(call.amount)

\* the requested amount in millisatoshi
RequestedMsat == Val(call.amount) * 1000

IsRangeError(r) ==
    /\ r.status = "error"
    /\ \/ startswith(r.msg, "Amount too small")
       \/ startswith(r.msg, "Amount too big")

endswith(s, p) == Len(s) >= Len(p) /\ SubSeq(s, Len(s) - Len(p) + 1, Len(s)) = p

\* the q with q*d <= n < (q+1)*d
Floor(n, d) == CHOOSE q \in -200..200 : q * d <= n /\ n < (q + 1) * d

\* C1: when get_bolt11 has ended for a descriptor that was read and an amount
\* with min_amount <= amount_msat <= max_amount, the result is not a range
\* error and the callback URL was requested (second GET, of payquery).
C1_InRangeProceeds ==
    (pc = "done" /\ DescriptorRead /\ AmountGiven
       /\ min_amount <= RequestedMsat /\ RequestedMsat <= max_amount)
    => /\ ~IsRangeError(Val(result))
       /\ Len(gets) = 2
       /\ gets[2] = payquery

\* C1 witness: an amount equal to the lower bound has reached the callback
C1_Witness ==
    /\ pc = "done" /\ DescriptorRead /\ AmountGiven
    /\ RequestedMsat = min_amount /\ min_amount < max_amount /\ min_amount > 0
    /\ Len(gets) = 2

\* C2: when get_bolt11 has ended for a descriptor that was read and an amount
\* outside [min_amount, max_amount], the result is an error whose message ends
\* with the range in whole satoshi: floor(min/1000) and floor(max/1000).
C2_OutOfRangeMessage ==
    (pc = "done" /\ DescriptorRead /\ AmountGiven
       /\ (RequestedMsat < min_amount \/ RequestedMsat > max_amount))
    => /\ Val(result).status = "error"
       /\ IsRangeError(Val(result))
       /\ endswith(Val(result).msg,
                   "must be in range " \o ToString(Floor(min_amount, 1000))
                   \o " and " \o ToString(Floor(max_amount, 1000)) \o " sat")

\* C2 witness: amount_msat = min_amount - 1 was rejected, with bounds that are
\* no multiples of 1000
C2_Witness ==
    /\ pc = "done" /\ DescriptorRead /\ AmountGiven
    /\ RequestedMsat = min_amount - 1
    /\ min_amount % 1000 # 0 /\ max_amount % 1000 # 0
    /\ Val(result).status = "error"

\* C3: when the callback answer is a JSON object, the result is Ok with the
\* value of `pr` if `pr` is present (also beside `reason`), else Err with the
\* value of `reason` if `reason` is present, else Err "Unexpected response format".
C3_Classification ==
    (pc = "done" /\ pr_dict.t = "obj")
    => LET keys == DOMAIN pr_dict.f
       IN  /\ "pr" \in keys
               => Val(result) = [status |-> "ok", bolt11 |-> pr_dict.f["pr"].s]
           /\ ("pr" \notin keys /\ "reason" \in keys)
               => Val(result) = [status |-> "error", msg |-> pr_dict.f["reason"].s]
           /\ ("pr" \notin keys /\ "reason" \notin keys)
               => Val(result) = [status |-> "error", msg |-> "Unexpected response format"]

\* C3 witness: an answer holding both `pr` and `reason` gave Ok
C3_Witness ==
    /\ pc = "done" /\ pr_dict.t = "obj"
    /\ {"pr", "reason"} \subseteq DOMAIN pr_dict.f
    /\ Val(result).status = "ok"

\* the value of a query parameter, None when the parameter is not in the query
Param(params, key) ==
    IF \E i \in 1..Len(params) : params[i][1] = key
    THEN Some(params[CHOOSE i \in 1..Len(params) : params[i][1] = key][2])
    ELSE None

\* C4: once the query is built with comment_allowed > 0 and a non-empty
\* comment, the comment parameter is the first comment_allowed characters of
\* the supplied comment if that is longer, and the supplied comment otherwise.
C4_Truncation ==
    (pc = "request" /\ comment_allowed > 0 /\ Truthy(call.comment))
    => LET given == Val(call.comment)
           sent  == Param(query_params, "comment")
       IN  /\ ~IsNone(sent)
           /\ Len(given) > comment_allowed
               => /\ Len(Val(sent)) = comment_allowed
                  /\ \A i \in 1..comment_allowed : CharAt(Val(sent), i) = CharAt(given, i)
           /\ Len(given) <= comment_allowed => Val(sent) = given

\* C4 witness: a comment of 5 characters was cut to 2
C4_Witness ==
    /\ pc = "request" /\ comment_allowed = 2 /\ Truthy(call.comment)
    /\ Len(Val(call.comment)) = 5
    /\ Param(query_params, "comment") = Some("a ")

\* the comment is applicable: the service allows comments and one is supplied
CommentApplicable == comment_allowed > 0 /\ Truthy(call.comment)

\* the URL of the callback request as the address, amount and comment give it
ExpectedUrl ==
    LET a   == IF AmountGiven THEN "amount=" \o ToString(RequestedMsat) ELSE ""
        c   == IF CommentApplicable
               THEN "comment=" \o quote_plus(Prefix(Val(call.comment), comment_allowed))
               ELSE ""
        sep == IF Len(a) > 0 /\ Len(c) > 0 THEN "&" ELSE ""
    IN  lnurlpay \o "?" \o a \o sep \o c

\* C5 (as claimed): the query holds a comment parameter only if
\* comment_allowed > 0 and the supplied comment is non-empty after trimming.
C5_CommentOnlyIfNonBlank ==
    (pc = "request" /\ ~IsNone(Param(query_params, "comment")))
    => /\ comment_allowed > 0
       /\ ~IsNone(call.comment)
       /\ Len(strip(Val(call.comment))) > 0

\* the required descriptor keys were read without an exception
RequiredRead(d) ==
    /\ d.t = "obj"
    /\ {"callback", "minSendable", "maxSendable"} \subseteq DOMAIN d.f
    /\ PyInt(d.f["minSendable"]).ok
    /\ PyInt(d.f["maxSendable"]).ok

\* C6 (as claimed): after the descriptor is read, a commentAllowed that is
\* missing or not a JSON integer gives comment_allowed = 0 and no error.
C6_PermissiveCommentAllowed ==
    (call.op = "get_bolt11" /\ Len(gets) = 1 /\ pc \in {"check_amount", "except"}
       /\ RequiredRead(datablock)
       /\ ("commentAllowed" \notin DOMAIN datablock.f
             \/ datablock.f["commentAllowed"].t # "int"))
    => (pc = "check_amount" /\ comment_allowed = 0)

\* C7: the URL of the callback request is the callback, one `?`, then
\* amount=<msat> exactly when an amount was given and comment=<url-encoded>
\* exactly when a comment is applicable, in this order, joined by `&`.
C7_CallbackUrl ==
    (call.op = "get_bolt11" /\ Len(gets) = 2)
    => /\ gets[2] = ExpectedUrl
       /\ Count(gets[2], "?") = Count(lnurlpay, "?") + 1
       /\ (lnurlpay = "https://example.com/cb" /\ call.amount = Some(5)
             /\ call.comment = Some("hi") /\ comment_allowed = 10)
           => gets[2] = "https://example.com/cb?amount=5000&comment=hi"
       /\ (lnurlpay = "https://example.com/cb" /\ call.amount = None
             /\ call.comment = Some("a b&c") /\ comment_allowed = 10)
           => gets[2] = "https://example.com/cb?comment=a+b%26c"

\* C7 witness: the scenario of the specification, on a callback URL
C7_Witness ==
    /\ call.op = "get_bolt11" /\ Len(gets) = 2
    /\ min_amount = 1000 /\ max_amount = 100000 /\ comment_allowed = 10
    /\ gets[2] = "https://example.com/cb?amount=5000&comment=hi"

\* exactly one `@`, with characters before it and after it
WellFormedAddress(a) ==
    /\ Count(a, "@") = 1
    /\ FirstIndex(a, "@") > 1
    /\ FirstIndex(a, "@") < Len(a)

\* C8 (as claimed): get_payurl gives a discovery URL exactly for the addresses
\* with one `@`, a non-empty username and a non-empty domain.
C8_AcceptedAddressWellFormed ==
    (call.op = "get_bolt11" /\ pc # "get_payurl")
    => (Len(purl) > 0 <=> WellFormedAddress(call.lnaddress))

C10_ShortDataNotDecoded ==
    (call.op = "decode_bolt11" /\ ~IsNone(call.decoded)
       /\ Len(Val(call.decoded).data) < 7 + 104)
    => (pc # "decoded" /\ IsNone(dec))

\* C12: a run of get_bolt11 issues at most two GETs, the first of the
\* discovery URL and the second of the callback URL, each once and never again
\* after a failure; the callback GET comes only after the descriptor was read
\* and the amount, if given, passed the range check; a rejected address issues
\* no GET and a rejected amount no callback GET.
C12_SingleAttempt ==
    call.op = "get_bolt11"
    => /\ Len(gets) <= 2
       /\ pc \in {"get_payurl", "fetch"} => Len(gets) = 0
       /\ pc \in {"check_amount", "build_query", "request"} => Len(gets) = 1
       /\ Len(gets) >= 1 => (Count(call.lnaddress, "@") = 1 /\ gets[1] = purl)
       /\ (Len(gets) >= 1 /\ ~DescriptorRead) => Len(gets) = 1
       /\ Len(gets) = 2
           => /\ DescriptorRead
              /\ gets[2] = payquery
              /\ AmountGiven
                  => (min_amount <= RequestedMsat /\ RequestedMsat <= max_amount)
       /\ (pc \in {"except", "done"} /\ Count(call.lnaddress, "@") # 1) => Len(gets) = 0
       /\ (pc = "done" /\ DescriptorRead /\ AmountGiven
             /\ (RequestedMsat < min_amount \/ RequestedMsat > max_amount))
           => Len(gets) = 1

\* C12 witness: the callback GET has failed and the run has ended with the two
\* GETs
C12_Witness ==
    /\ call.op = "get_bolt11" /\ pc = "done"
    /\ Len(gets) = 2
    /\ Val(result) = [status |-> "error", msg |-> "Max retries exceeded"]

\* C13 (as claimed): a descriptor that leads to a callback request has
\* 0 < min_amount <= max_amount.
C13_BoundsValidated ==
    (call.op = "get_bolt11" /\ Len(gets) = 2)
    => (0 < min_amount /\ min_amount <= max_amount /\ 0 < max_amount)

-----------------------------------------------------------------------------
(* Properties of parse_tags *)

\* the declared length of the field that starts at the 0-based index i
Declared(words, i) == words[i + 2] * 32 + words[i + 3]

\* the loop has stopped at a field whose declared length overruns the words
StoppedAtOverrun ==
    /\ tagloop.pc = "done"
    /\ tagloop.i + 3 <= Len(tagloop.words)
    /\ tagloop.i + 3 + Declared(tagloop.words, tagloop.i) > Len(tagloop.words)

\* the read index stays inside the words; when the loop has ended, either
\* fewer than 3 words are left or the next field overruns, and the tags are
\* those of the words before the read index (also what parse_tags gives for
\* all the words): the overrunning field adds nothing and nothing is raised
C11_State ==
    /\ 0 <= tagloop.i /\ tagloop.i <= Len(tagloop.words)
    /\ tagloop.pc = "done"
        => /\ \/ tagloop.i + 3 > Len(tagloop.words)
              \/ StoppedAtOverrun
           /\ tagloop.tags = parse_tags(SubSeq(tagloop.words, 1, tagloop.i))
           /\ tagloop.tags = parse_tags(tagloop.words)
           /\ IsNone(raised)
    /\ (tagloop.pc = "done" /\ tagloop.words = <<3, 1, 3, 23, 0>>)
        => (tagloop.i = 0 /\ tagloop.tags = EmptyTags)
    /\ (tagloop.pc = "done" /\ tagloop.words = <<23, 0, 1, 3, 3, 0>>)
        => (tagloop.i = 4 /\ DOMAIN tagloop.tags = {"expiry"}
            /\ tagloop.tags["expiry"] = [int |-> 3])
    /\ (tagloop.pc = "done" /\ tagloop.words = <<3, 0, 0, 23, 0, 1>>)
        => (tagloop.i = 3 /\ DOMAIN tagloop.tags = {"description"}
            /\ tagloop.tags["description"] = [text |-> ""])

\* every pass of the loop that does not end it moves the read index forward
\* by at least the 3 header words, so the loop ends
C11_Step ==
    (tagloop.pc = "loop" /\ tagloop'.pc = "loop" /\ tagloop' # tagloop)
    => (tagloop'.i >= tagloop.i + 3 /\ tagloop'.words = tagloop.words)

\* C11: when parse_tags meets a field whose declared length reads past the end
\* of the words, the loop stops and returns, without an error, exactly the
\* fields parsed before that field; on every word sequence the read index
\* never exceeds the length and the loop ends.
C11_OverrunStops == []C11_State /\ [][C11_Step]_vars

\* C11 witness: the loop has stopped at an overrunning field after it had
\* parsed an earlier field
C11_Witness ==
    /\ StoppedAtOverrun
    /\ tagloop.i > 0
    /\ tagloop.tags # EmptyTags

-----------------------------------------------------------------------------
(* Properties of the QR label *)

\* C14 (as claimed): from the end of a generation with an error until a later
\* generation succeeds, also through resize events, the QR label shows no QR
\* code.
C14_NoStaleQr == gui.last = "error" => IsNone(gui.shown)

====
